---- MODULE Spec2Model ----
(***************************************************************************)
(* Model of the chain-event subscription engine of the blockchain Client   *)
(* (src/blockchain/pallets/ddcclusters.go, package blockchain, lines       *)
(* 128-418): StartEventsListening, RegisterEventsListener,                 *)
(* processSystemEventsStorageChanges and pendingEvents.                    *)
(*                                                                         *)
(* Granularity.  Every access to shared memory (the isListening flag, the  *)
(* registry map, a listener's subscriptionStartBlock, its pendingEvents,   *)
(* the channels) is a step of its own; RPC calls, which touch no shared    *)
(* state, are folded into the step that follows them, with their outcome   *)
(* (success or failure) chosen nondeterministically.  A send on the        *)
(* unbuffered error channel is a rendezvous with the reader (ReadErr).     *)
(* Every live notification carries exactly one change of the System.Events *)
(* key with data, and every historical query returns one change set with   *)
(* one such change.                                                        *)
(***************************************************************************)
EXTENDS Integers, Sequences, FiniteSets, TLC

\* ---- bounds ---------------------------------------------------------------
NumCallers == 2      \* concurrent callers of StartEventsListening
MaxCalls == 1        \* StartEventsListening calls per caller
MaxSubs == 2         \* raw subscriptions opened over the client's life
MaxListeners == 2    \* RegisterEventsListener calls
MaxFirst == 1        \* height of the first block the live feed can announce
MaxHeight == 3       \* last height the live feed announces
MaxBegin == 2        \* largest begin passed to RegisterEventsListener
MaxFaults == 1       \* injected RPC / decode failures after the engine started
MaxCancels == 2      \* calls of one cancel function

Callers == 1..NumCallers
Engines == 1..MaxSubs
Listeners == 1..MaxListeners
Heights == 0..MaxHeight
Nil == 0

VARIABLES
  \* Client fields
  isListening,        \* c.isListening
  cancelListening,    \* c.cancelListening: the engine whose closure it is, Nil
  errsListening,      \* c.errsListening: the engine whose channel it is, Nil
  eventsListeners,    \* c.eventsListeners: idx -> listener (Nil = no entry)
  \* StartEventsListening, per caller
  startPc, startEng, ret, callsLeft,
  \* per engine (one per successful SubscribeStorageRaw)
  subCount,           \* subscriptions opened so far
  subOpen,            \* subscriptions opened and not yet unsubscribed
  loopPc,             \* the dispatcher goroutine of the engine
  oncePc,             \* the sync.Once of the engine's cancel closure
  stopCalls,          \* calls of the engine's cancel closure so far
  \* the chain
  nextH,              \* height of the next block the live feed announces
  lastH,              \* height of the last block the live feed announces
  faults,             \* failures injected so far
  \* RegisterEventsListener, per listener
  regsLeft,           \* RegisterEventsListener calls still to be made
  regPc, regIdx, begin,
  subscriptionStartBlock, subscriptionStarted,
  peList, peDone,     \* pendingEvents.list (heights), pendingEvents.done
  cancelled, cancelOnce,
  cancelCalls,        \* calls of the listener's cancel function so far
  bfPc, currentBlock, \* the backfill goroutine
  errKind,            \* the error the backfill goroutine is sending
  errSent,            \* kinds of errors of the backfill received by the reader
  calls,              \* fan-out goroutines running callbackWrapper
  dispatched,         \* heights handed to the listener's callbackWrapper
  delivered,          \* invocations of the listener's callback, in order
  panicked            \* a goroutine panicked (close of a closed channel)

lifeVars == <<isListening, cancelListening, errsListening, startPc, startEng,
              ret, callsLeft, subCount, subOpen, loopPc, oncePc, stopCalls>>
chainVars == <<nextH, lastH, faults>>
regVars == <<eventsListeners, regsLeft, regPc, regIdx, begin, cancelled,
             cancelOnce, cancelCalls>>
lsnVars == <<subscriptionStartBlock, subscriptionStarted, peList, peDone,
             bfPc, currentBlock, errKind, errSent, calls, dispatched,
             delivered, panicked>>
vars == <<lifeVars, chainVars, regVars, lsnVars>>

NoRet == [cancel |-> Nil, errs |-> Nil, err |-> FALSE, opened |-> FALSE]

\* ---- initial state: NewClient --------------------------------------------
InitCommon ==
  /\ isListening = 0
  /\ cancelListening = Nil
  /\ errsListening = Nil
  /\ eventsListeners = [i \in 0..(MaxListeners - 1) |-> Nil]
  /\ startPc = [c \in Callers |-> "idle"]
  /\ startEng = [c \in Callers |-> Nil]
  /\ ret = [c \in Callers |-> NoRet]
  /\ subCount = 0
  /\ subOpen = {}
  /\ loopPc = [e \in Engines |-> "none"]
  /\ oncePc = [e \in Engines |-> "none"]
  /\ stopCalls = [e \in Engines |-> 0]
  /\ nextH \in 0..MaxFirst
  /\ faults = 0
  /\ regPc = [l \in Listeners |-> "idle"]
  /\ regIdx = [l \in Listeners |-> 0]
  /\ begin = [l \in Listeners |-> 0]
  /\ subscriptionStartBlock = [l \in Listeners |-> 0]
  /\ subscriptionStarted = [l \in Listeners |-> FALSE]
  /\ peList = [l \in Listeners |-> <<>>]
  /\ peDone = [l \in Listeners |-> FALSE]
  /\ cancelled = [l \in Listeners |-> FALSE]
  /\ cancelOnce = [l \in Listeners |-> FALSE]
  /\ cancelCalls = [l \in Listeners |-> 0]
  /\ bfPc = [l \in Listeners |-> "none"]
  /\ currentBlock = [l \in Listeners |-> 0]
  /\ errKind = [l \in Listeners |-> "none"]
  /\ errSent = [l \in Listeners |-> {}]
  /\ calls = {}
  /\ dispatched = [l \in Listeners |-> {}]
  /\ delivered = [l \in Listeners |-> <<>>]
  /\ panicked = FALSE

\* ---- StartEventsListening -------------------------------------------------
\* atomic.CompareAndSwapUint32(&c.isListening, 0, 1) succeeds
CasIsListeningMut == TRUE
CasIsListening == isListening = 0

StartCall(c) ==
  /\ ~panicked
  /\ startPc[c] \in {"idle", "returned"}
  /\ callsLeft[c] > 0
  /\ callsLeft' = [callsLeft EXCEPT ![c] = @ - 1]
  /\ startPc' = [startPc EXCEPT ![c] = "cas"]
  /\ ret' = [ret EXCEPT ![c] = NoRet]
  /\ UNCHANGED <<isListening, cancelListening, errsListening, startEng,
                 subCount, subOpen, loopPc, oncePc,
                 stopCalls>>
  /\ UNCHANGED <<chainVars, regVars, lsnVars>>

\* the compare-and-swap wins: the caller goes on to open the subscription
StartCasWin(c) ==
  /\ ~panicked
  /\ startPc[c] = "cas"
  /\ CasIsListening
  /\ isListening' = 1
  /\ startPc' = [startPc EXCEPT ![c] = "setup"]
  /\ UNCHANGED <<cancelListening, errsListening, startEng, ret, callsLeft,
                 subCount, subOpen, loopPc, oncePc,
                 stopCalls>>
  /\ UNCHANGED <<chainVars, regVars, lsnVars>>

\* the compare-and-swap loses: return c.cancelListening, c.errsListening, nil
StartCasLose(c) ==
  /\ ~panicked
  /\ startPc[c] = "cas"
  /\ ~CasIsListening
  /\ startPc' = [startPc EXCEPT ![c] = "returned"]
  /\ ret' = [ret EXCEPT ![c] = [cancel |-> cancelListening,
                                errs |-> errsListening,
                                err |-> FALSE, opened |-> FALSE]]
  /\ UNCHANGED <<isListening, cancelListening, errsListening, startEng,
                 callsLeft, subCount, subOpen, loopPc, oncePc,
                 stopCalls>>
  /\ UNCHANGED <<chainVars, regVars, lsnVars>>

\* GetMetadataLatest, CreateStorageKey or SubscribeStorageRaw fails:
\* return nil, nil, err
StartSetupFail(c) ==
  /\ ~panicked
  /\ startPc[c] = "setup"
  /\ startPc' = [startPc EXCEPT ![c] = "returned"]
  /\ ret' = [ret EXCEPT ![c] = [cancel |-> Nil, errs |-> Nil,
                                err |-> TRUE, opened |-> FALSE]]
  /\ UNCHANGED <<isListening, cancelListening, errsListening, startEng,
                 callsLeft, subCount, subOpen, loopPc, oncePc,
                 stopCalls>>
  /\ UNCHANGED <<chainVars, regVars, lsnVars>>

\* the three calls succeed: SubscribeStorageRaw opens a subscription
StartSubscribe(c) ==
  /\ ~panicked
  /\ startPc[c] = "setup"
  /\ subCount < MaxSubs
  /\ subCount' = subCount + 1
  /\ subOpen' = subOpen \cup {subCount + 1}
  /\ startEng' = [startEng EXCEPT ![c] = subCount + 1]
  /\ startPc' = [startPc EXCEPT ![c] = "spawn"]
  /\ UNCHANGED <<isListening, cancelListening, errsListening, ret, callsLeft,
                 loopPc, oncePc,
                 stopCalls>>
  /\ UNCHANGED <<chainVars, regVars, lsnVars>>

\* done := make(chan); c.errsListening = make(chan error); go func() {...}()
StartSpawn(c) ==
  /\ ~panicked
  /\ startPc[c] = "spawn"
  /\ errsListening' = startEng[c]
  /\ loopPc' = [loopPc EXCEPT ![startEng[c]] = "select"]
  /\ startPc' = [startPc EXCEPT ![c] = "install"]
  /\ UNCHANGED <<isListening, cancelListening, startEng, ret, callsLeft,
                 subCount, subOpen, oncePc,
                 stopCalls>>
  /\ UNCHANGED <<chainVars, regVars, lsnVars>>

\* c.cancelListening = func() {...}; return c.cancelListening, c.errsListening, nil
StartInstall(c) ==
  /\ ~panicked
  /\ startPc[c] = "install"
  /\ cancelListening' = startEng[c]
  /\ oncePc' = [oncePc EXCEPT ![startEng[c]] = "fresh"]
  /\ startPc' = [startPc EXCEPT ![c] = "returned"]
  /\ ret' = [ret EXCEPT ![c] = [cancel |-> startEng[c],
                                errs |-> errsListening,
                                err |-> FALSE, opened |-> TRUE]]
  /\ UNCHANGED <<isListening, errsListening, startEng, callsLeft,
                 subCount, subOpen, loopPc, stopCalls>>
  /\ UNCHANGED <<chainVars, regVars, lsnVars>>

\* ---- the engine's cancel closure: once.Do(func() {...}) --------------------
\* once.Do runs its function: no call has entered this sync.Once yet
EngOnceFreshMut(e) == oncePc[e] \in {"fresh", "done"}
EngOnceFresh(e) == oncePc[e] = "fresh"

\* the first call of the closure enters once.Do
CancelBegin(e) ==
  /\ ~panicked
  /\ stopCalls[e] < MaxCancels
  /\ EngOnceFresh(e)
  /\ stopCalls' = [stopCalls EXCEPT ![e] = @ + 1]
  /\ oncePc' = [oncePc EXCEPT ![e] = "send"]
  /\ UNCHANGED <<isListening, cancelListening, errsListening, startPc,
                 startEng, ret, callsLeft, subCount, subOpen, loopPc>>
  /\ UNCHANGED <<chainVars, regVars, lsnVars>>

\* the dispatcher goroutine on case <-done: return
LoopOnDoneMut == "select"
LoopOnDone == "exited"

\* done <- struct{}{}: taken by the dispatcher goroutine in its select
CancelSendDone(e) ==
  /\ ~panicked
  /\ oncePc[e] = "send"
  /\ loopPc[e] = "select"
  /\ loopPc' = [loopPc EXCEPT ![e] = LoopOnDone]
  /\ oncePc' = [oncePc EXCEPT ![e] = "unsub"]
  /\ UNCHANGED <<isListening, cancelListening, errsListening, startPc,
                 startEng, ret, callsLeft, subCount, subOpen, stopCalls>>
  /\ UNCHANGED <<chainVars, regVars, lsnVars>>

\* a later call of the closure: once.Do does not run the function again
CancelAgain(e) ==
  /\ ~panicked
  /\ stopCalls[e] < MaxCancels
  /\ oncePc[e] # "none"
  /\ ~EngOnceFresh(e)
  /\ stopCalls' = [stopCalls EXCEPT ![e] = @ + 1]
  /\ UNCHANGED <<isListening, cancelListening, errsListening, startPc,
                 startEng, ret, callsLeft, subCount, subOpen, loopPc, oncePc>>
  /\ UNCHANGED <<chainVars, regVars, lsnVars>>

\* sub.Unsubscribe()
CancelUnsubscribe(e) ==
  /\ ~panicked
  /\ oncePc[e] = "unsub"
  /\ subOpen' = subOpen \ {e}
  /\ oncePc' = [oncePc EXCEPT ![e] = "reset"]
  /\ UNCHANGED <<isListening, cancelListening, errsListening, startPc,
                 startEng, ret, callsLeft, subCount, loopPc, stopCalls>>
  /\ UNCHANGED <<chainVars, regVars, lsnVars>>

\* c.isListening = 0
CancelReset(e) ==
  /\ ~panicked
  /\ oncePc[e] = "reset"
  /\ isListening' = 0
  /\ oncePc' = [oncePc EXCEPT ![e] = "done"]
  /\ UNCHANGED <<cancelListening, errsListening, startPc, startEng, ret,
                 callsLeft, subCount, subOpen, loopPc, stopCalls>>
  /\ UNCHANGED <<chainVars, regVars, lsnVars>>

\* ---- the dispatcher goroutine and processSystemEventsStorageChanges --------
\* the listeners in the registry: for _, callback := range c.eventsListeners
Registered == {eventsListeners[i] : i \in DOMAIN eventsListeners} \ {Nil}

\* the fan-out starts a goroutine per listener (go callback(...)) and does
\* not run the wrapper itself
FanOutInlineMut == TRUE
FanOutInline == FALSE

\* pe.mu of a listener is free: it is held across a step only while
\* pendingEvents.Do runs the callback
PeMuFree(l) == bfPc[l] # "cbDrain"

\* c.mu is free: its critical sections (the store of Register, the body of a
\* listener's cancel, the fan-out) are single steps, and it would stay held
\* over the wrapper calls only if the fan-out ran them itself
MuFree == ~FanOutInline \/ calls = {}

\* the dispatcher gets through the fan-out: it needs c.mu, and would need
\* pe.mu of every registered listener if it ran the wrappers itself
LiveReady ==
  /\ MuFree
  /\ FanOutInline => \A l \in Registered : PeMuFree(l)

\* for _, callback := range c.eventsListeners { go callback(...) }
FanOutMut(h) ==
  {[l |-> l, h |-> h, pc |-> "cas"] : l \in {k \in Listeners : regPc[k] = "active"}}
FanOut(h) == {[l |-> l, h |-> h, pc |-> "cas"] : l \in Registered}

\* case set := <-sub.Chan(): GetHeader and the decoding succeed, and the
\* batch is fanned out under c.mu
LiveDispatch(e) ==
  /\ ~panicked
  /\ loopPc[e] = "select"
  /\ e \in subOpen
  /\ nextH <= lastH
  /\ LiveReady
  /\ nextH' = nextH + 1
  /\ calls' = calls \cup FanOut(nextH)
  /\ dispatched' = [l \in Listeners |->
                      IF \E g \in FanOut(nextH) : g.l = l
                        THEN dispatched[l] \cup {nextH} ELSE dispatched[l]]
  /\ UNCHANGED <<lastH, faults, lifeVars, regVars>>
  /\ UNCHANGED <<subscriptionStartBlock, subscriptionStarted, peList, peDone,
                 bfPc, currentBlock, errKind, errSent, delivered, panicked>>

\* c.errsListening = make(chan error): a send waits for a receiver
ErrsUnbufferedMut == FALSE
ErrsUnbuffered == TRUE

\* GetHeader (k = "header") or DecodeEventRecords (k = "decode") fails:
\* the goroutine blocks in c.errsListening <- err
LiveFail(e, k) ==
  /\ ~panicked
  /\ loopPc[e] = "select"
  /\ e \in subOpen
  /\ nextH <= lastH
  /\ faults < MaxFaults
  /\ faults' = faults + 1
  /\ nextH' = nextH + 1
  /\ loopPc' = [loopPc EXCEPT ![e] = IF ErrsUnbuffered THEN k ELSE "select"]
  /\ UNCHANGED lastH
  /\ UNCHANGED <<isListening, cancelListening, errsListening, startPc,
                 startEng, ret, callsLeft, subCount, subOpen, oncePc,
                 stopCalls>>
  /\ UNCHANGED <<regVars, lsnVars>>

\* after c.errsListening <- err: processSystemEventsStorageChanges returns
\* (or continues past the only change) into the for loop of the dispatcher
LoopAfterErrMut == "exited"
LoopAfterErr == "select"

\* the reader of the error channel takes the error: the notification is
\* skipped (return, or continue past the only change) and the loop selects again
LiveReadErr(e) ==
  /\ ~panicked
  /\ loopPc[e] \in {"header", "decode"}
  /\ errsListening # Nil
  /\ loopPc' = [loopPc EXCEPT ![e] = LoopAfterErr]
  /\ UNCHANGED <<isListening, cancelListening, errsListening, startPc,
                 startEng, ret, callsLeft, subCount, subOpen, oncePc,
                 stopCalls>>
  /\ UNCHANGED <<chainVars, regVars, lsnVars>>

\* ---- RegisterEventsListener -----------------------------------------------
\* for i := 0; ...; i++ { if _, ok := c.eventsListeners[i]; !ok { idx = i; break } }
LowestFreeMut ==
  CHOOSE i \in DOMAIN eventsListeners :
    /\ eventsListeners[i] = Nil
    /\ \A j \in DOMAIN eventsListeners : j > i => eventsListeners[j] # Nil
LowestFree ==
  CHOOSE i \in DOMAIN eventsListeners :
    /\ eventsListeners[i] = Nil
    /\ \A j \in DOMAIN eventsListeners : j < i => eventsListeners[j] # Nil

\* the scan for a free id, made without holding c.mu
RegScan(l, b) ==
  /\ ~panicked
  /\ regPc[l] = "idle"
  /\ regsLeft > 0
  /\ regsLeft' = regsLeft - 1
  /\ \A k \in Listeners : k < l => regPc[k] # "idle"
  /\ \E i \in DOMAIN eventsListeners : eventsListeners[i] = Nil
  /\ regIdx' = [regIdx EXCEPT ![l] = LowestFree]
  /\ begin' = [begin EXCEPT ![l] = b]
  /\ regPc' = [regPc EXCEPT ![l] = "scanned"]
  /\ UNCHANGED <<eventsListeners, cancelled, cancelOnce, cancelCalls>>
  /\ UNCHANGED <<lifeVars, chainVars, lsnVars>>

\* c.eventsListeners[idx] = callbackWrapper under c.mu; go func() {...}();
\* return cancel, nil
RegInstall(l) ==
  /\ ~panicked
  /\ regPc[l] = "scanned"
  /\ MuFree
  /\ eventsListeners' = [eventsListeners EXCEPT ![regIdx[l]] = l]
  /\ regPc' = [regPc EXCEPT ![l] = "active"]
  /\ bfPc' = [bfPc EXCEPT ![l] = "wait"]
  /\ UNCHANGED <<regsLeft, regIdx, begin, cancelled, cancelOnce,
                 cancelCalls>>
  /\ UNCHANGED <<subscriptionStartBlock, subscriptionStarted, peList, peDone,
                 currentBlock, errKind, errSent, calls, dispatched, delivered,
                 panicked>>
  /\ UNCHANGED <<lifeVars, chainVars>>

\* once.Do runs its function: no call has entered the listener's sync.Once
OnceFreshMut(l) == TRUE
OnceFresh(l) == ~cancelOnce[l]

\* cancel: once.Do(func() { c.mu.Lock(); cancelled = true;
\* delete(c.eventsListeners, idx); c.mu.Unlock() })
CancelListener(l) ==
  /\ ~panicked
  /\ regPc[l] = "active"
  /\ cancelCalls[l] < MaxCancels
  /\ OnceFresh(l)
  /\ MuFree
  /\ cancelCalls' = [cancelCalls EXCEPT ![l] = @ + 1]
  /\ cancelOnce' = [cancelOnce EXCEPT ![l] = TRUE]
  /\ cancelled' = [cancelled EXCEPT ![l] = TRUE]
  /\ eventsListeners' = [eventsListeners EXCEPT ![regIdx[l]] = Nil]
  /\ UNCHANGED <<regsLeft, regPc, regIdx, begin>>
  /\ UNCHANGED <<lifeVars, chainVars, lsnVars>>

\* a later call of cancel: once.Do does not run the function again
CancelListenerAgain(l) ==
  /\ ~panicked
  /\ regPc[l] = "active"
  /\ cancelCalls[l] < MaxCancels
  /\ ~OnceFresh(l)
  /\ cancelCalls' = [cancelCalls EXCEPT ![l] = @ + 1]
  /\ UNCHANGED <<eventsListeners, regsLeft, regPc, regIdx, begin, cancelled,
                 cancelOnce>>
  /\ UNCHANGED <<lifeVars, chainVars, lsnVars>>

\* ---- callbackWrapper, run by a fan-out goroutine ---------------------------
Invoke(l, h, via) ==
  [delivered EXCEPT ![l] = Append(@, [h |-> h, via |-> via])]

\* atomic.CompareAndSwapUint32(&subscriptionStartBlock, 0, uint32(blockNumber))
\* succeeds: close(subscriptionStarted), which panics on a closed channel
WrapCasWin(g) ==
  /\ ~panicked
  /\ g \in calls
  /\ g.pc = "cas"
  /\ subscriptionStartBlock[g.l] = 0
  /\ subscriptionStartBlock' = [subscriptionStartBlock EXCEPT ![g.l] = g.h]
  /\ IF subscriptionStarted[g.l]
       THEN /\ panicked' = TRUE
            /\ UNCHANGED <<subscriptionStarted, calls>>
       ELSE /\ subscriptionStarted' = [subscriptionStarted EXCEPT ![g.l] = TRUE]
            /\ calls' = (calls \ {g}) \cup {[g EXCEPT !.pc = "push"]}
            /\ UNCHANGED panicked
  /\ UNCHANGED <<peList, peDone, bfPc, currentBlock, errKind, errSent,
                 dispatched, delivered>>
  /\ UNCHANGED <<lifeVars, chainVars, regVars>>

\* the compare-and-swap fails: the start block is already set
WrapCasLose(g) ==
  /\ ~panicked
  /\ g \in calls
  /\ g.pc = "cas"
  /\ subscriptionStartBlock[g.l] # 0
  /\ calls' = (calls \ {g}) \cup {[g EXCEPT !.pc = "push"]}
  /\ UNCHANGED <<subscriptionStartBlock, subscriptionStarted, peList, peDone,
                 bfPc, currentBlock, errKind, errSent, dispatched, delivered,
                 panicked>>
  /\ UNCHANGED <<lifeVars, chainVars, regVars>>

\* pendingEvents.TryPush: if !pe.done { append; return true }; return false
TryPushAcceptsMut(l) == TRUE
TryPushAccepts(l) == ~peDone[l]

\* pe.list = append(pe.list, &blockEvents{...})
PushedMut(l, h) == peList[l]
Pushed(l, h) == Append(peList[l], h)

\* pendingEvents.TryPush appends and returns true: the wrapper returns
WrapPushOk(g) ==
  /\ ~panicked
  /\ g \in calls
  /\ g.pc = "push"
  /\ PeMuFree(g.l)
  /\ TryPushAccepts(g.l)
  /\ peList' = [peList EXCEPT ![g.l] = Pushed(g.l, g.h)]
  /\ calls' = calls \ {g}
  /\ UNCHANGED <<subscriptionStartBlock, subscriptionStarted, peDone, bfPc,
                 currentBlock, errKind, errSent, dispatched, delivered,
                 panicked>>
  /\ UNCHANGED <<lifeVars, chainVars, regVars>>

\* pendingEvents.TryPush finds done set and returns false
WrapPushClosed(g) ==
  /\ ~panicked
  /\ g \in calls
  /\ g.pc = "push"
  /\ PeMuFree(g.l)
  /\ ~TryPushAccepts(g.l)
  /\ calls' = (calls \ {g}) \cup {[g EXCEPT !.pc = "direct"]}
  /\ UNCHANGED <<subscriptionStartBlock, subscriptionStarted, peList, peDone,
                 bfPc, currentBlock, errKind, errSent, dispatched, delivered,
                 panicked>>
  /\ UNCHANGED <<lifeVars, chainVars, regVars>>

\* callback(events, blockNumber, blockHash)
WrapDirect(g) ==
  /\ ~panicked
  /\ g \in calls
  /\ g.pc = "direct"
  /\ delivered' = Invoke(g.l, g.h, "direct")
  /\ calls' = calls \ {g}
  /\ UNCHANGED <<subscriptionStartBlock, subscriptionStarted, peList, peDone,
                 bfPc, currentBlock, errKind, errSent, dispatched, panicked>>
  /\ UNCHANGED <<lifeVars, chainVars, regVars>>

\* ---- the backfill goroutine of RegisterEventsListener ---------------------
FetchKinds == {"meta", "hash", "query", "header"}

\* <-subscriptionStarted returns: the channel is closed
SubscriptionObservedMut(l) == TRUE
SubscriptionObserved(l) == subscriptionStarted[l]

\* <-subscriptionStarted; begin >= subscriptionStartBlock: return
BfSkip(l) ==
  /\ ~panicked
  /\ bfPc[l] = "wait"
  /\ SubscriptionObserved(l)
  /\ begin[l] >= subscriptionStartBlock[l]
  /\ bfPc' = [bfPc EXCEPT ![l] = "exitSkip"]
  /\ UNCHANGED <<subscriptionStartBlock, subscriptionStarted, peList, peDone,
                 currentBlock, errKind, errSent, calls, dispatched, delivered,
                 panicked>>
  /\ UNCHANGED <<lifeVars, chainVars, regVars>>

\* <-subscriptionStarted; GetMetadataLatest and CreateStorageKey succeed;
\* currentBlock := uint32(begin)
BfBegin(l) ==
  /\ ~panicked
  /\ bfPc[l] = "wait"
  /\ SubscriptionObserved(l)
  /\ begin[l] < subscriptionStartBlock[l]
  /\ bfPc' = [bfPc EXCEPT ![l] = "fetch"]
  /\ currentBlock' = [currentBlock EXCEPT ![l] = begin[l]]
  /\ UNCHANGED <<subscriptionStartBlock, subscriptionStarted, peList, peDone,
                 errKind, errSent, calls, dispatched, delivered, panicked>>
  /\ UNCHANGED <<lifeVars, chainVars, regVars>>

\* <-subscriptionStarted; GetMetadataLatest or CreateStorageKey fails
BfMetaFail(l) ==
  /\ ~panicked
  /\ bfPc[l] = "wait"
  /\ SubscriptionObserved(l)
  /\ begin[l] < subscriptionStartBlock[l]
  /\ faults < MaxFaults
  /\ faults' = faults + 1
  /\ bfPc' = [bfPc EXCEPT ![l] = "err"]
  /\ errKind' = [errKind EXCEPT ![l] = "meta"]
  /\ UNCHANGED <<subscriptionStartBlock, subscriptionStarted, peList, peDone,
                 currentBlock, errSent, calls, dispatched, delivered, panicked>>
  /\ UNCHANGED <<nextH, lastH, lifeVars, regVars>>

\* GetBlockHash, QueryStorageAt, GetHeader and DecodeEventRecords succeed
\* for currentBlock
BfFetchOk(l) ==
  /\ ~panicked
  /\ bfPc[l] = "fetch"
  /\ bfPc' = [bfPc EXCEPT ![l] = "deliver"]
  /\ UNCHANGED <<subscriptionStartBlock, subscriptionStarted, peList, peDone,
                 currentBlock, errKind, errSent, calls, dispatched, delivered,
                 panicked>>
  /\ UNCHANGED <<lifeVars, chainVars, regVars>>

\* one of them fails: the goroutine blocks in c.errsListening <- err
BfFetchFail(l, k) ==
  /\ ~panicked
  /\ bfPc[l] = "fetch"
  /\ faults < MaxFaults
  /\ faults' = faults + 1
  /\ bfPc' = [bfPc EXCEPT ![l] = "err"]
  /\ errKind' = [errKind EXCEPT ![l] = k]
  /\ UNCHANGED <<subscriptionStartBlock, subscriptionStarted, peList, peDone,
                 currentBlock, errSent, calls, dispatched, delivered, panicked>>
  /\ UNCHANGED <<nextH, lastH, lifeVars, regVars>>

\* the statement after c.errsListening <- err: continue after a decoding
\* error, return after the others
ContinuesAfterMut(k) == k \in {"decode", "header"}
ContinuesAfter(k) == k = "decode"

\* the loop test currentBlock < subscriptionStartBlock, for the value b
BfMoreMut(l, b) == b <= subscriptionStartBlock[l]
BfMore(l, b) == b < subscriptionStartBlock[l]

\* currentBlock++ and the loop test currentBlock < subscriptionStartBlock
BfAdvance(l) ==
  /\ currentBlock' = [currentBlock EXCEPT ![l] = @ + 1]
  /\ bfPc' = [bfPc EXCEPT ![l] =
                IF BfMore(l, currentBlock[l] + 1) THEN "fetch" ELSE "drain"]

\* return after c.errsListening <- err: the goroutine of this Register call
\* ends
AbortBackfillMut(l) ==
  [k \in Listeners |->
     IF k = l \/ bfPc[k] \in {"fetch", "deliver", "err", "drain"}
       THEN "exitErr" ELSE bfPc[k]]
AbortBackfill(l) == [bfPc EXCEPT ![l] = "exitErr"]

\* the reader of the error channel takes the error of the backfill
BfReadErr(l) ==
  /\ ~panicked
  /\ bfPc[l] = "err"
  /\ errsListening # Nil
  /\ errSent' = [errSent EXCEPT ![l] = @ \cup {errKind[l]}]
  /\ errKind' = [errKind EXCEPT ![l] = "none"]
  /\ IF ContinuesAfter(errKind[l])
       THEN BfAdvance(l)
       ELSE /\ bfPc' = AbortBackfill(l)
            /\ UNCHANGED currentBlock
  /\ UNCHANGED <<subscriptionStartBlock, subscriptionStarted, peList, peDone,
                 calls, dispatched, delivered, panicked>>
  /\ UNCHANGED <<lifeVars, chainVars, regVars>>

\* if cancelled { return }
BfCancelled(l) ==
  /\ ~panicked
  /\ bfPc[l] = "deliver"
  /\ cancelled[l]
  /\ bfPc' = [bfPc EXCEPT ![l] = "exitCancel"]
  /\ UNCHANGED <<subscriptionStartBlock, subscriptionStarted, peList, peDone,
                 currentBlock, errKind, errSent, calls, dispatched, delivered,
                 panicked>>
  /\ UNCHANGED <<lifeVars, chainVars, regVars>>

\* callback(events, header.Number, set.Block)
BfDeliver(l) ==
  /\ ~panicked
  /\ bfPc[l] = "deliver"
  /\ ~cancelled[l]
  /\ delivered' = Invoke(l, currentBlock[l], "backfill")
  /\ BfAdvance(l)
  /\ UNCHANGED <<subscriptionStartBlock, subscriptionStarted, peList, peDone,
                 errKind, errSent, calls, dispatched, panicked>>
  /\ UNCHANGED <<lifeVars, chainVars, regVars>>

\* if len(pe.list) == 0, the test pendingEvents.Do makes under pe.mu
DrainEmptyMut(l) == TRUE
DrainEmpty(l) == peList[l] = <<>>

\* pe.list[0], the entry pendingEvents.Do passes to the callback
DrainPickMut(l) == peList[l][Len(peList[l])]
DrainPick(l) == peList[l][1]

\* pendingEvents.Do, one iteration with a non-empty list, under pe.mu:
\* callback(pe.list[0]...); pe.list = pe.list[1:]
BfDrainOne(l) ==
  /\ ~panicked
  /\ bfPc[l] = "drain"
  /\ ~DrainEmpty(l)
  /\ delivered' = Invoke(l, DrainPick(l), "drain")
  /\ peList' = [peList EXCEPT ![l] = Tail(@)]
  /\ UNCHANGED <<subscriptionStartBlock, subscriptionStarted, peDone, bfPc,
                 currentBlock, errKind, errSent, calls, dispatched, panicked>>
  /\ UNCHANGED <<lifeVars, chainVars, regVars>>

\* pendingEvents.Do, the iteration that finds the list empty: pe.done = true
BfDrainClose(l) ==
  /\ ~panicked
  /\ bfPc[l] = "drain"
  /\ DrainEmpty(l)
  /\ peDone' = [peDone EXCEPT ![l] = TRUE]
  /\ bfPc' = [bfPc EXCEPT ![l] = "exitDone"]
  /\ UNCHANGED <<subscriptionStartBlock, subscriptionStarted, peList,
                 currentBlock, errKind, errSent, calls, dispatched, delivered,
                 panicked>>
  /\ UNCHANGED <<lifeVars, chainVars, regVars>>

\* ---- the callback as a call that takes time --------------------------------
\* In the actions above an invocation of the callback is one step.  The
\* actions below split it into its entry (where the invocation is recorded in
\* delivered) and its return, for the properties that are about what other
\* goroutines can do while a callback runs.

\* if cancelled { return } is passed and callback(events, header.Number,
\* set.Block) is entered
BfCallBegin(l) ==
  /\ ~panicked
  /\ bfPc[l] = "deliver"
  /\ ~cancelled[l]
  /\ delivered' = Invoke(l, currentBlock[l], "backfill")
  /\ bfPc' = [bfPc EXCEPT ![l] = "cbBackfill"]
  /\ UNCHANGED <<subscriptionStartBlock, subscriptionStarted, peList, peDone,
                 currentBlock, errKind, errSent, calls, dispatched, panicked>>
  /\ UNCHANGED <<lifeVars, chainVars, regVars>>

\* the callback returns to the backfill loop
BfCallEnd(l) ==
  /\ ~panicked
  /\ bfPc[l] = "cbBackfill"
  /\ BfAdvance(l)
  /\ UNCHANGED <<subscriptionStartBlock, subscriptionStarted, peList, peDone,
                 errKind, errSent, calls, dispatched, delivered, panicked>>
  /\ UNCHANGED <<lifeVars, chainVars, regVars>>

\* pendingEvents.Do locks pe.mu, finds the list non-empty and enters
\* callback(pe.list[0]...)
DrainCallBegin(l) ==
  /\ ~panicked
  /\ bfPc[l] = "drain"
  /\ ~DrainEmpty(l)
  /\ delivered' = Invoke(l, DrainPick(l), "drain")
  /\ bfPc' = [bfPc EXCEPT ![l] = "cbDrain"]
  /\ UNCHANGED <<subscriptionStartBlock, subscriptionStarted, peList, peDone,
                 currentBlock, errKind, errSent, calls, dispatched, panicked>>
  /\ UNCHANGED <<lifeVars, chainVars, regVars>>

\* the callback returns to pendingEvents.Do: pe.list = pe.list[1:];
\* pe.mu.Unlock()
DrainCallEnd(l) ==
  /\ ~panicked
  /\ bfPc[l] = "cbDrain"
  /\ peList' = [peList EXCEPT ![l] = Tail(@)]
  /\ bfPc' = [bfPc EXCEPT ![l] = "drain"]
  /\ UNCHANGED <<subscriptionStartBlock, subscriptionStarted, peDone,
                 currentBlock, errKind, errSent, calls, dispatched, delivered,
                 panicked>>
  /\ UNCHANGED <<lifeVars, chainVars, regVars>>

\* the wrapper enters callback(events, blockNumber, blockHash)
WrapCallBegin(g) ==
  /\ ~panicked
  /\ g \in calls
  /\ g.pc = "direct"
  /\ delivered' = Invoke(g.l, g.h, "direct")
  /\ calls' = (calls \ {g}) \cup {[g EXCEPT !.pc = "cbDirect"]}
  /\ UNCHANGED <<subscriptionStartBlock, subscriptionStarted, peList, peDone,
                 bfPc, currentBlock, errKind, errSent, dispatched, panicked>>
  /\ UNCHANGED <<lifeVars, chainVars, regVars>>

\* the callback returns and the wrapper's goroutine ends
WrapCallEnd(g) ==
  /\ ~panicked
  /\ g \in calls
  /\ g.pc = "cbDirect"
  /\ calls' = calls \ {g}
  /\ UNCHANGED <<subscriptionStartBlock, subscriptionStarted, peList, peDone,
                 bfPc, currentBlock, errKind, errSent, dispatched, delivered,
                 panicked>>
  /\ UNCHANGED <<lifeVars, chainVars, regVars>>

\* ---- specifications --------------------------------------------------------
StartSteps ==
  \E c \in Callers :
    \/ StartCall(c)
    \/ StartCasWin(c)
    \/ StartSetupFail(c)
    \/ StartSubscribe(c)
    \/ StartSpawn(c)
    \/ StartInstall(c)

LiveSteps ==
  \E e \in Engines :
    \/ LiveDispatch(e)
    \/ \E k \in {"header", "decode"} : LiveFail(e, k)
    \/ LiveReadErr(e)

ListenerSteps ==
  \/ \E l \in Listeners, b \in 0..MaxBegin : RegScan(l, b)
  \/ \E l \in Listeners :
       \/ RegInstall(l)
       \/ CancelListener(l)
       \/ BfSkip(l)
       \/ BfBegin(l)
       \/ BfMetaFail(l)
       \/ BfFetchOk(l)
       \/ \E k \in {"hash", "query", "header", "decode"} : BfFetchFail(l, k)
       \/ BfReadErr(l)
       \/ BfCancelled(l)
       \/ BfDeliver(l)
       \/ BfDrainOne(l)
       \/ BfDrainClose(l)
  \/ \E g \in calls :
       \/ WrapCasWin(g)
       \/ WrapCasLose(g)
       \/ WrapPushOk(g)
       \/ WrapPushClosed(g)
       \/ WrapDirect(g)

\* Spec: one StartEventsListening call, one RegisterEventsListener call, the
\* live feed, the listener's goroutines and its cancel function.
Init ==
  /\ InitCommon
  /\ lastH = MaxHeight
  /\ regsLeft = 1
  /\ callsLeft = [c \in Callers |-> IF c = 1 THEN 1 ELSE 0]

Next == StartSteps \/ LiveSteps \/ ListenerSteps

Spec == Init /\ [][Next]_vars

\* SpecLife: concurrent and repeated StartEventsListening calls, the engine's
\* cancel closure and a live feed of two blocks, on a client without
\* listeners.
InitLife ==
  /\ InitCommon
  /\ nextH = 1
  /\ lastH = 2
  /\ regsLeft = 0
  /\ callsLeft = [c \in Callers |-> MaxCalls]

CancelSteps ==
  \E e \in Engines :
    \/ CancelBegin(e)
    \/ CancelAgain(e)
    \/ CancelSendDone(e)
    \/ CancelUnsubscribe(e)
    \/ CancelReset(e)

NextLife ==
  \/ StartSteps
  \/ \E c \in Callers : StartCasLose(c)
  \/ CancelSteps
  \/ LiveSteps

SpecLife == InitLife /\ [][NextLife]_vars

\* SpecReg: concurrent RegisterEventsListener calls and repeated calls of the
\* listeners' cancel functions, on a client that is not listening.
InitReg ==
  /\ InitCommon
  /\ lastH = MaxHeight
  /\ regsLeft = MaxListeners
  /\ callsLeft = [c \in Callers |-> 0]

NextReg ==
  \/ \E l \in Listeners, b \in 0..MaxBegin : RegScan(l, b)
  \/ \E l \in Listeners :
       \/ RegInstall(l)
       \/ CancelListener(l)
       \/ CancelListenerAgain(l)

SpecReg == InitReg /\ [][NextReg]_vars

\* SpecSeq: as SpecReg, with the RegisterEventsListener calls made one at a
\* time: a call starts only when no other call is between its scan and its
\* return.
RegScanSeq(l, b) ==
  /\ \A k \in Listeners : regPc[k] # "scanned"
  /\ RegScan(l, b)

NextSeq ==
  \/ \E l \in Listeners, b \in 0..MaxBegin : RegScanSeq(l, b)
  \/ \E l \in Listeners :
       \/ RegInstall(l)
       \/ CancelListener(l)
       \/ CancelListenerAgain(l)

SpecSeq == InitReg /\ [][NextSeq]_vars

\* SpecStop: one caller that starts the engine, cancels it and starts it
\* again, one RegisterEventsListener call and a live feed of two blocks.
InitStop ==
  /\ InitCommon
  /\ nextH = 1
  /\ lastH = 2
  /\ regsLeft = 1
  /\ callsLeft = [c \in Callers |-> IF c = 1 THEN 2 ELSE 0]

NextStop ==
  \/ StartSteps
  \/ \E c \in Callers : StartCasLose(c)
  \/ CancelSteps
  \/ LiveSteps
  \/ ListenerSteps

SpecStop == InitStop /\ [][NextStop]_vars

\* SpecTwo: one StartEventsListening call, two RegisterEventsListener calls
\* with begin 0, and a live feed of the blocks 1 and 2 (begin is below every
\* subscription start, so the backfill goroutines never return at line 271).
InitTwo ==
  /\ InitCommon
  /\ nextH = 1
  /\ lastH = 2
  /\ regsLeft = 2
  /\ callsLeft = [c \in Callers |-> IF c = 1 THEN 1 ELSE 0]

NextTwo ==
  \/ StartSteps
  \/ LiveSteps
  \/ \E l \in Listeners :
       \/ RegScan(l, 0)
       \/ RegInstall(l)
       \/ CancelListener(l)
       \/ BfBegin(l)
       \/ BfMetaFail(l)
       \/ BfFetchOk(l)
       \/ \E k \in {"hash", "query", "header", "decode"} : BfFetchFail(l, k)
       \/ BfReadErr(l)
       \/ BfCancelled(l)
       \/ BfDeliver(l)
       \/ BfDrainOne(l)
       \/ BfDrainClose(l)
  \/ \E g \in calls :
       \/ WrapCasWin(g)
       \/ WrapCasLose(g)
       \/ WrapPushOk(g)
       \/ WrapPushClosed(g)
       \/ WrapDirect(g)

SpecTwo == InitTwo /\ [][NextTwo]_vars

\* SpecCb: one StartEventsListening call, two RegisterEventsListener calls
\* with begin 0, a live feed of the blocks 1 and 2, no failure, and callbacks
\* that take time.
InitCb ==
  /\ InitCommon
  /\ nextH = 1
  /\ lastH = 2
  /\ regsLeft = 2
  /\ callsLeft = [c \in Callers |-> IF c = 1 THEN 1 ELSE 0]

NextCb ==
  \/ StartSteps
  \/ \E e \in Engines : LiveDispatch(e)
  \/ \E l \in Listeners :
       \/ RegScan(l, 0)
       \/ RegInstall(l)
       \/ CancelListener(l)
       \/ BfBegin(l)
       \/ BfFetchOk(l)
       \/ BfCancelled(l)
       \/ BfCallBegin(l)
       \/ BfCallEnd(l)
       \/ DrainCallBegin(l)
       \/ DrainCallEnd(l)
       \/ BfDrainClose(l)
  \/ \E g \in calls :
       \/ WrapCasWin(g)
       \/ WrapCasLose(g)
       \/ WrapPushOk(g)
       \/ WrapPushClosed(g)
       \/ WrapCallBegin(g)
       \/ WrapCallEnd(g)

SpecCb == InitCb /\ [][NextCb]_vars

\* SpecBlock: as SpecStop, but nothing receives from the error channel.
NextBlock ==
  \/ StartSteps
  \/ \E c \in Callers : StartCasLose(c)
  \/ CancelSteps
  \/ \E e \in Engines :
       \/ LiveDispatch(e)
       \/ \E k \in {"header", "decode"} : LiveFail(e, k)
  \/ \E l \in Listeners, b \in 0..MaxBegin : RegScan(l, b)
  \/ \E l \in Listeners :
       \/ RegInstall(l)
       \/ CancelListener(l)
       \/ BfSkip(l)
       \/ BfBegin(l)
       \/ BfMetaFail(l)
       \/ BfFetchOk(l)
       \/ \E k \in {"hash", "query", "header", "decode"} : BfFetchFail(l, k)
       \/ BfCancelled(l)
       \/ BfDeliver(l)
       \/ BfDrainOne(l)
       \/ BfDrainClose(l)
  \/ \E g \in calls :
       \/ WrapCasWin(g)
       \/ WrapCasLose(g)
       \/ WrapPushOk(g)
       \/ WrapPushClosed(g)
       \/ WrapDirect(g)

SpecBlock == InitStop /\ [][NextBlock]_vars

\* SpecFair: Spec with a live feed of the blocks 1 and 2, in which no
\* goroutine that can take a step waits forever: every RPC returns and the
\* error channel has a receiver.  Every behaviour is finite (each step uses
\* up a call, a block, a fault or a position of a goroutine), so weak
\* fairness of the next-state relation means that it runs until no goroutine
\* can take a step.
InitFair ==
  /\ InitCommon
  /\ nextH = 1
  /\ lastH = 2
  /\ regsLeft = 1
  /\ callsLeft = [c \in Callers |-> IF c = 1 THEN 1 ELSE 0]

SpecFair == InitFair /\ [][Next]_vars /\ WF_vars(Next)

\* ---- properties --------------------------------------------------------------
DeliveredHeights(l) == {delivered[l][i].h : i \in DOMAIN delivered[l]}
BackfillCount(l) ==
  Cardinality({i \in DOMAIN delivered[l] : delivered[l][i].via = "backfill"})
InFlight(l) == {g \in calls : g.l = l}
BfExited(l) == bfPc[l] \in {"exitSkip", "exitErr", "exitCancel", "exitDone"}

\* C1: every listener's callback is invoked at most once for a height,
\* counting backfill, drain and direct invocations together.
OrigC1 ==
  \A l \in Listeners : \A i, j \in DOMAIN delivered[l] :
    i # j => delivered[l][i].h # delivered[l][j].h

\* C2: the heights passed to a listener's callback, in the order of the
\* invocations, are strictly increasing.
OrigC2 ==
  \A l \in Listeners : \A i \in DOMAIN delivered[l] :
    i < Len(delivered[l]) => delivered[l][i].h < delivered[l][i + 1].h

\* C3: without failure or cancellation, once a live-start height is recorded
\* and the backfill goroutine and every wrapper call handed to the listener
\* have finished, the heights delivered are exactly begin .. the last height
\* the dispatcher processed.
OrigC3 ==
  \A l \in Listeners :
    ( /\ ~panicked
      /\ regPc[l] = "active"
      /\ ~cancelled[l]
      /\ faults = 0
      /\ subscriptionStartBlock[l] > 0
      /\ BfExited(l)
      /\ InFlight(l) = {} )
    => DeliveredHeights(l) = begin[l]..(nextH - 1)

\* C4: a listener whose begin is at or beyond its live-start height gets no
\* backfill invocation, and once its wrapper calls have finished every
\* notification handed to it has been delivered to its callback.
OrigC4 ==
  \A l \in Listeners :
    ( /\ ~panicked
      /\ subscriptionStartBlock[l] > 0
      /\ bfPc[l] = "exitSkip"
      /\ ~cancelled[l]
      /\ InFlight(l) = {} )
    => /\ BackfillCount(l) = 0
       /\ dispatched[l] \subseteq DeliveredHeights(l)

\* C5: after a failed historical fetch the pending queue is still drained and
\* closed: once the backfill goroutine and the wrapper calls have finished,
\* the queue is closed and empty and every notification handed to the
\* listener has been delivered.
OrigC5 ==
  \A l \in Listeners :
    ( /\ ~panicked
      /\ bfPc[l] = "exitErr"
      /\ ~cancelled[l]
      /\ InFlight(l) = {} )
    => /\ peDone[l]
       /\ peList[l] = <<>>
       /\ dispatched[l] \subseteq DeliveredHeights(l)

\* C6: the StartEventsListening calls made concurrently on a client that is
\* not yet listening open one subscription, and every one of them returns
\* the same non-nil cancel function and error channel.
FirstRound ==
  /\ \A c \in Callers : callsLeft[c] >= MaxCalls - 1 /\ ~ret[c].err
  /\ \A e \in Engines : oncePc[e] \in {"none", "fresh"}

OrigC6 ==
  FirstRound =>
    /\ subCount <= 1
    /\ \A c \in Callers : startPc[c] = "returned" =>
         /\ ret[c].cancel # Nil
         /\ ret[c].errs # Nil
         /\ \A d \in Callers : startPc[d] = "returned" =>
              ret[d].cancel = ret[c].cancel /\ ret[d].errs = ret[c].errs

\* C7: at most one raw subscription is open at any time.
ThmC7 == Cardinality(subOpen) <= 1

\* a second subscription is open after the first engine was cancelled
WitC7 == subCount >= 2 /\ subOpen # {} /\ \E e \in Engines : oncePc[e] = "done"

\* C8: a StartEventsListening call that returns a setup error leaves
\* isListening = 0.
OrigC8 ==
  [][\A c \in Callers :
       (startPc[c] = "setup" /\ startPc'[c] = "returned" /\ ret'[c].err)
       => isListening' = 0]_vars

\* C9: a StartEventsListening call whose compare-and-swap runs after an
\* earlier call has returned the handles of an engine and before that
\* engine's cancel function is called opens no subscription, starts no
\* dispatcher loop and returns the same cancel function and error channel.
ThmC9 ==
  [][\A c \in Callers :
       ( /\ startPc[c] = "cas"
         /\ startPc'[c] # "cas"
         /\ cancelListening # Nil
         /\ oncePc[cancelListening] = "fresh" )
       => /\ startPc'[c] = "returned"
          /\ ret'[c] = [cancel |-> cancelListening, errs |-> cancelListening,
                        err |-> FALSE, opened |-> FALSE]
          /\ subCount' = subCount
          /\ subOpen' = subOpen
          /\ loopPc' = loopPc]_vars

\* a call has returned the handles of an engine that another call opened and
\* that was never cancelled
WitC9 ==
  \E c, d \in Callers :
    /\ c # d
    /\ startPc[c] = "returned" /\ ~ret[c].opened /\ ret[c].cancel # Nil
    /\ startPc[d] = "returned" /\ ret[d].opened
    /\ ret[c].cancel = ret[d].cancel /\ ret[c].errs = ret[d].errs
    /\ oncePc[ret[c].cancel] = "fresh"

LiveCopies(l, h) ==
  {i \in DOMAIN delivered[l] :
     delivered[l][i].h = h /\ delivered[l][i].via \in {"drain", "direct"}}
QueuedCopies(l, h) == {i \in DOMAIN peList[l] : peList[l][i] = h}
RunningCopies(l, h) == {g \in InFlight(l) : g.h = h}

ThmC11 ==
  \A l \in Listeners : bfPc[l] \in {"drain", "exitDone"} =>
    \A h \in dispatched[l] :
      /\ Cardinality(LiveCopies(l, h)) + Cardinality(QueuedCopies(l, h))
           + Cardinality(RunningCopies(l, h)) = 1
      /\ (bfPc[l] = "exitDone" /\ RunningCopies(l, h) = {})
           => Cardinality(LiveCopies(l, h)) = 1

\* the drain delivered one batch and closed the queue, and a later batch,
\* whose push found the queue closed, was delivered directly
WitC11 ==
  \E l \in Listeners :
    /\ bfPc[l] = "exitDone"
    /\ InFlight(l) = {}
    /\ \E i, j \in DOMAIN delivered[l] :
         delivered[l][i].via = "drain" /\ delivered[l][j].via = "direct"

\* C12: no two registered and not cancelled listeners share an id, and a
\* RegisterEventsListener call stores its wrapper in a free slot.
Active(l) == regPc[l] = "active" /\ ~cancelled[l]

OrigC12 ==
  \A l, k \in Listeners :
    (l # k /\ Active(l) /\ Active(k)) => regIdx[l] # regIdx[k]

\* C13 as stated: with the Register calls made one at a time, the new
\* listener is stored under the smallest integer that is not a key of the
\* registry when it is stored.
IsLowestFree(i, reg) ==
  /\ reg[i] = Nil
  /\ \A j \in DOMAIN reg : j < i => reg[j] # Nil

ThmC14 ==
  [][\A l \in Listeners :
       /\ cancelCalls[l] >= 1 => (cancelled[l] /\ l \notin Registered)
       /\ (cancelCalls[l] >= 1 /\ cancelCalls'[l] > cancelCalls[l])
          => UNCHANGED <<eventsListeners, cancelled>>]_vars

\* a cancel function was called twice while a later listener holds its id
WitC14 ==
  \E l, k \in Listeners :
    /\ l # k
    /\ cancelCalls[l] >= 2
    /\ Active(k)
    /\ regIdx[k] = regIdx[l]
    /\ eventsListeners[regIdx[k]] = k

\* C15: the stages of the engine's cancel closure (the send on done, the
\* Unsubscribe, the reset of isListening) are each passed once, in order, and
\* a call of the closure after the first one changes nothing.
OnceRank(p) ==
  CASE p = "none" -> 0
    [] p = "fresh" -> 1
    [] p = "send" -> 2
    [] p = "unsub" -> 3
    [] p = "reset" -> 4
    [] p = "done" -> 5

ThmC15 ==
  [][\A e \in Engines :
       /\ OnceRank(oncePc'[e]) >= OnceRank(oncePc[e])
       /\ (stopCalls[e] >= 1 /\ stopCalls'[e] > stopCalls[e])
          => UNCHANGED <<isListening, cancelListening, errsListening, subCount,
                         subOpen, loopPc, oncePc>>]_vars

\* the closure of an engine was called twice and has finished
WitC15 == \E e \in Engines : stopCalls[e] >= 2 /\ oncePc[e] = "done"

\* C16: once the engine's cancel closure has finished, its dispatcher loop has
\* exited and its subscription is unsubscribed; a notification is taken from
\* the feed only by the loop of an engine whose closure has not yet sent the
\* stop signal; a wrapper call already started can still run to its end.
ThmC16 ==
  [][/\ \A e \in Engines :
          oncePc[e] = "done" => (loopPc[e] = "exited" /\ e \notin subOpen)
     /\ (nextH' # nextH \/ dispatched' # dispatched)
          => \E e \in Engines :
               /\ oncePc[e] \in {"none", "fresh", "send"}
               /\ loopPc[e] = "select"
               /\ e \in subOpen
     /\ \A g \in calls :
          ((\A e \in Engines : oncePc[e] \in {"none", "done"})
             /\ g.pc = "direct")
          => ENABLED WrapDirect(g)]_vars

\* the engine is cancelled and a batch fanned out before the cancel has been
\* delivered, with a wrapper call of another batch still running
WitC16 ==
  /\ \E e \in Engines : oncePc[e] = "done"
  /\ \A e \in Engines : oncePc[e] \in {"none", "done"}
  /\ isListening = 0
  /\ calls # {}
  /\ \E l \in Listeners : delivered[l] # <<>>

\* C18: once a listener's cancel has run while its backfill is in progress,
\* the backfill goroutine starts the fetch of no further block.
OrigC18 ==
  [][\A l \in Listeners :
       (cancelled[l] /\ bfPc[l] \in {"fetch", "deliver", "err"})
       => ~(bfPc'[l] = "fetch" /\ currentBlock'[l] # currentBlock[l])]_vars

\* C19: a live notification whose GetHeader or decoding fails is reported on
\* the error channel and skipped: the step fans nothing out, the height is
\* dispatched to no listener then or later, and when the error is read the
\* loop is back at its select.
ThmC19 ==
  [][/\ \A l \in Listeners :
          /\ \A h \in dispatched[l] : h < nextH
          /\ dispatched'[l] \ dispatched[l] \subseteq {nextH}
     /\ nextH' >= nextH
     /\ dispatched' # dispatched => nextH' = nextH + 1
     /\ \A e \in Engines :
          /\ (loopPc[e] = "select" /\ loopPc'[e] \in {"header", "decode"})
             => /\ nextH' = nextH + 1
                /\ faults' = faults + 1
                /\ UNCHANGED <<calls, dispatched, delivered, eventsListeners>>
          /\ loopPc[e] \in {"header", "decode"}
             => /\ errsListening # Nil => ENABLED LiveReadErr(e)
                /\ loopPc'[e] \in {loopPc[e], "select"}
                /\ UNCHANGED <<nextH, dispatched>>]_vars

\* a listener was handed a height after the failed one: its dispatched
\* heights have a hole
WitC19 ==
  /\ faults >= 1
  /\ \E l \in Listeners : \E h \in dispatched[l] :
       /\ h + 1 \notin dispatched[l]
       /\ h + 2 \in dispatched[l]

\* C17: once the cancel of a listener has run, a batch the dispatcher fans out
\* is not handed to that listener, and it is handed to every other listener
\* whose registration has completed and whose cancel has not run.
OrigC17 ==
  [][(nextH' = nextH + 1 /\ loopPc' = loopPc)
     => \A k \in Listeners :
          cancelled[k]
          => /\ dispatched'[k] = dispatched[k]
             /\ \A l \in Listeners \ {k} :
                  Active(l) => nextH \in dispatched'[l]]_vars

\* C20: a step in which the backfill of one listener runs into an error, or
\* has its error read, changes nothing of any other listener nor of the
\* dispatcher; whatever the state of the failed backfill, another listener's
\* backfill can take its next step, the dispatcher can take the next
\* notification, and a backfill that finishes without an error of its own
\* has delivered every height from begin up to the subscription start.
BfErrStep(a) ==
  \/ bfPc[a] # "err" /\ bfPc'[a] = "err"
  \/ bfPc[a] = "err" /\ bfPc'[a] # "err"

BackfillHeights(l) ==
  {delivered[l][i].h : i \in {j \in DOMAIN delivered[l] :
                                 delivered[l][j].via = "backfill"}}

ThmC20 ==
  [][/\ \A a \in Listeners :
          BfErrStep(a)
          => /\ \A b \in Listeners \ {a} :
                  /\ bfPc'[b] = bfPc[b]
                  /\ currentBlock'[b] = currentBlock[b]
                  /\ delivered'[b] = delivered[b]
                  /\ dispatched'[b] = dispatched[b]
                  /\ peList'[b] = peList[b]
                  /\ peDone'[b] = peDone[b]
                  /\ subscriptionStartBlock'[b] = subscriptionStartBlock[b]
                  /\ subscriptionStarted'[b] = subscriptionStarted[b]
                  /\ errSent'[b] = errSent[b]
             /\ UNCHANGED <<calls, loopPc, nextH, subOpen, eventsListeners,
                            isListening, errsListening, panicked>>
     /\ ~panicked
        => /\ \A b \in Listeners :
                /\ bfPc[b] = "fetch" => ENABLED BfFetchOk(b)
                /\ (bfPc[b] = "deliver" /\ ~cancelled[b])
                   => ENABLED BfDeliver(b)
                /\ bfPc[b] = "drain"
                   => ENABLED (BfDrainOne(b) \/ BfDrainClose(b))
                /\ (bfPc[b] = "exitDone" /\ errSent[b] = {})
                   => BackfillHeights(b)
                        = begin[b] .. (subscriptionStartBlock[b] - 1)
           /\ \A e \in Engines :
                (loopPc[e] = "select" /\ e \in subOpen /\ nextH <= lastH)
                => ENABLED LiveDispatch(e)]_vars

\* one listener's backfill was aborted by an error while the other one had
\* not finished; the other one then delivered its whole range and was handed
\* the live batches
WitC20 ==
  \E a, b \in Listeners :
    /\ a # b
    /\ bfPc[a] = "exitErr"
    /\ BackfillCount(a) < subscriptionStartBlock[a] - begin[a]
    /\ bfPc[b] = "exitDone"
    /\ subscriptionStartBlock[b] = 2
    /\ BackfillHeights(b) = 0 .. 1
    /\ DeliveredHeights(b) = 0 .. 2
    /\ loopPc[1] = "select"

\* C21: once a listener's 'subscription started' channel is closed, its
\* subscriptionStartBlock never changes and the channel is not closed again
\* (no goroutine panics), whatever heights the notifications carry.
OrigC21 ==
  [][\A l \in Listeners :
       subscriptionStarted[l]
       => /\ subscriptionStartBlock'[l] = subscriptionStartBlock[l]
          /\ subscriptionStarted'[l]
          /\ ~panicked']_vars

\* C22: for a listener with begin below its start block s, without failure or
\* cancellation, the callback is invoked at most once for s, after every
\* backfill invocation, and every invocation for a height above s comes after
\* the invocation for s.
PosOf(l, h) == {i \in DOMAIN delivered[l] : delivered[l][i].h = h}

OrigC22 ==
  \A l \in Listeners :
    ( /\ ~panicked
      /\ faults = 0
      /\ ~cancelled[l]
      /\ begin[l] < subscriptionStartBlock[l] )
    => /\ Cardinality({i \in PosOf(l, subscriptionStartBlock[l]) :
                         delivered[l][i].via # "backfill"}) <= 1
       /\ \A i \in DOMAIN delivered[l] :
            /\ delivered[l][i].via = "backfill"
               => \A j \in PosOf(l, subscriptionStartBlock[l]) :
                    delivered[l][j].via # "backfill" => i < j
            /\ delivered[l][i].h > subscriptionStartBlock[l]
               => \E j \in PosOf(l, subscriptionStartBlock[l]) : j < i

\* C23: pendingEvents.Do passes the buffered batches to the callback in the
\* order in which they were appended (the batches drained so far followed by
\* the queue are the sequence of appends), every drain invocation comes after
\* every backfill invocation and before every direct one, and the queue is
\* marked closed only when it is empty, a direct invocation being made only
\* after that.
ViaSeq(l, v) ==
  SelectSeq(delivered[l], LAMBDA d : d.via = v)
HeightsOf(q) == [i \in DOMAIN q |-> q[i].h]
Appended(l) == HeightsOf(ViaSeq(l, "drain")) \o peList[l]
ViaRank(v) == CASE v = "backfill" -> 1 [] v = "drain" -> 2 [] v = "direct" -> 3

ThmC23 ==
  [][\A l \in Listeners :
       /\ \/ Appended(l)' = Appended(l)
          \/ \E h \in dispatched[l] : Appended(l)' = Append(Appended(l), h)
       /\ \A i, j \in DOMAIN delivered[l] :
            i < j => ViaRank(delivered[l][i].via) <= ViaRank(delivered[l][j].via)
       /\ (~peDone[l] /\ peDone'[l])
          => /\ bfPc[l] = "drain"
             /\ peList[l] = <<>>
             /\ peList'[l] = <<>>
       /\ ViaSeq(l, "drain") # <<>> => bfPc[l] \in {"drain", "exitDone"}
       /\ ViaSeq(l, "direct") # <<>> => peDone[l]
       /\ Len(ViaSeq(l, "drain"))' > Len(ViaSeq(l, "drain"))
          => ~peDone[l] /\ bfPc[l] = "drain"]_vars

\* the drain delivered two batches that were appended in the order of the
\* wrapper calls, not of the heights, and a later batch went directly
WitC23 ==
  \E l \in Listeners :
    /\ peDone[l]
    /\ Len(ViaSeq(l, "drain")) >= 2
    /\ ViaSeq(l, "drain")[1].h > ViaSeq(l, "drain")[2].h
    /\ ViaSeq(l, "backfill") # <<>>
    /\ ViaSeq(l, "direct") # <<>>

\* C24: while the backfill has met no error, its invocations of the callback
\* are for begin, begin+1, ... up to the height before currentBlock, in this
\* order, all below the start block; an invocation leaves the pending queue
\* alone; when the loop is over without error or cancellation they are
\* begin .. start block - 1.
ThmC24 ==
  [][\A l \in Listeners :
       ( /\ ~panicked
         /\ bfPc[l] \notin {"none", "wait", "exitSkip"}
         /\ errSent[l] = {}
         /\ errKind[l] = "none" )
       => /\ HeightsOf(ViaSeq(l, "backfill"))
               = [i \in 1..(currentBlock[l] - begin[l]) |-> begin[l] + i - 1]
          /\ currentBlock[l] <= subscriptionStartBlock[l]
          /\ bfPc[l] \in {"drain", "exitDone"}
             => currentBlock[l] = subscriptionStartBlock[l]
          /\ Len(ViaSeq(l, "backfill"))' > Len(ViaSeq(l, "backfill"))
             => peList'[l] = peList[l] /\ peDone'[l] = peDone[l]]_vars

\* a backfill of two heights has finished while a live batch was waiting in
\* the queue
WitC24 ==
  \E l \in Listeners :
    /\ bfPc[l] = "drain"
    /\ faults = 0
    /\ ~cancelled[l]
    /\ subscriptionStartBlock[l] - begin[l] >= 2
    /\ Len(ViaSeq(l, "backfill")) = subscriptionStartBlock[l] - begin[l]
    /\ peList[l] # <<>>

\* C25: once a listener's cancel has run, the backfill goroutine invokes the
\* callback for no further historical batch and for no batch of the pending
\* queue.
OrigC25 ==
  [][\A l \in Listeners :
       cancelled[l]
       => /\ Len(ViaSeq(l, "backfill"))' = Len(ViaSeq(l, "backfill"))
          /\ Len(ViaSeq(l, "drain"))' = Len(ViaSeq(l, "drain"))]_vars

\* C26: the backfill goroutine of a listener leaves its wait, and the
\* callback is invoked, only after the listener's wrapper has been called for
\* a live notification and has closed the 'subscription started' channel; a
\* listener that was handed no notification has received nothing, and its
\* goroutine is still waiting.
ThmC26 ==
  \A l \in Listeners :
    /\ bfPc[l] \notin {"none", "wait"}
       => subscriptionStarted[l] /\ dispatched[l] # {}
    /\ delivered[l] # <<>> => subscriptionStarted[l] /\ dispatched[l] # {}
    /\ dispatched[l] = {}
       => /\ delivered[l] = <<>>
          /\ bfPc[l] \in {"none", "wait"}
          /\ ~subscriptionStarted[l]

\* a listener registered on a listening client after the last block of the
\* feed is still waiting, with nothing delivered
WitC26 ==
  \E l \in Listeners :
    /\ regPc[l] = "active"
    /\ nextH > lastH
    /\ calls = {}
    /\ dispatched[l] = {}
    /\ bfPc[l] = "wait"
    /\ isListening = 1

\* C27: a wrapper call whose TryPush finds the queue open appends its batch
\* at the end of the queue and returns: the callback is not invoked for it
\* and the call does not go on to the direct path.
ThmC27 ==
  [][\A g \in calls :
       (g.pc = "push" /\ ~peDone[g.l] /\ g \notin calls')
       => /\ peList'[g.l] = Append(peList[g.l], g.h)
          /\ delivered' = delivered
          /\ calls' = calls \ {g}]_vars

\* two batches are in the queue of a listener whose backfill is running
WitC27 ==
  \E l \in Listeners :
    /\ Len(peList[l]) >= 2
    /\ ~peDone[l]
    /\ bfPc[l] \in {"fetch", "deliver"}

\* C28: pendingEvents.done starts false, and once it is true it stays true
\* and the list stays empty: no push is accepted any more, and the wrapper
\* calls go to the direct path.
ThmC28 ==
  [][\A l \in Listeners :
       /\ regPc[l] # "active" => ~peDone[l]
       /\ peDone[l]
          => /\ peDone'[l]
             /\ peList[l] = <<>>
             /\ peList'[l] = <<>>
             /\ Len(ViaSeq(l, "drain"))' = Len(ViaSeq(l, "drain"))
       /\ \A g \in calls :
            (g.l = l /\ g.pc = "direct") => peDone[l]]_vars

\* the queue is closed and a wrapper call whose push was refused is about to
\* invoke the callback, after another one has done so
WitC28 ==
  \E l \in Listeners :
    /\ peDone[l]
    /\ ViaSeq(l, "direct") # <<>>
    /\ \E g \in calls : g.l = l /\ g.pc = "direct"

\* C29: whatever the backfill goroutines are doing (waiting for a historical
\* fetch, running the callback from the loop or from pendingEvents.Do, which
\* holds pe.mu), a dispatcher at its select takes the next notification, and
\* that step hands the batch to a new wrapper goroutine of every registered
\* listener without touching any backfill goroutine or queue.
ThmC29 ==
  [][/\ \A e \in Engines :
          (~panicked /\ loopPc[e] = "select" /\ e \in subOpen /\ nextH <= lastH)
          => ENABLED LiveDispatch(e)
     /\ nextH' = nextH + 1
        => /\ calls' = calls \cup FanOut(nextH)
           /\ \A l \in Registered : nextH \in dispatched'[l]
           /\ UNCHANGED <<bfPc, currentBlock, peList, peDone, delivered>>]_vars

\* the dispatcher can take the next notification while one listener's
\* callback runs inside pendingEvents.Do and the other listener's backfill is
\* in a historical fetch
WitC29 ==
  \E l, k \in Listeners :
    /\ bfPc[l] = "cbDrain"
    /\ bfPc[k] \in {"fetch", "cbBackfill"}
    /\ l \in Registered /\ k \in Registered
    /\ \E e \in Engines : ENABLED LiveDispatch(e)

\* C30: while a callback runs, on any of the three paths, c.mu is free: the
\* listener's cancel and the store of a RegisterEventsListener call can take
\* their step, and the callback can return.
CbRunning(l) ==
  \/ bfPc[l] \in {"cbBackfill", "cbDrain"}
  \/ \E g \in calls : g.l = l /\ g.pc = "cbDirect"

ThmC30 ==
  \A l \in Listeners :
    (CbRunning(l) /\ ~panicked)
    => /\ MuFree
       /\ (OnceFresh(l) /\ cancelCalls[l] < MaxCancels)
          => ENABLED CancelListener(l)
       /\ \A k \in Listeners : regPc[k] = "scanned" => ENABLED RegInstall(k)
       /\ bfPc[l] = "cbBackfill" => ENABLED BfCallEnd(l)
       /\ bfPc[l] = "cbDrain" => ENABLED DrainCallEnd(l)
       /\ \A g \in calls : g.pc = "cbDirect" => ENABLED WrapCallEnd(g)

\* a listener was cancelled while its callback was running from the backfill
\* loop, and a RegisterEventsListener call is about to store its wrapper
WitC30 ==
  \E l, k \in Listeners :
    /\ l # k
    /\ cancelled[l] /\ bfPc[l] = "cbBackfill"
    /\ regPc[k] = "scanned"
    /\ ENABLED RegInstall(k)

\* C31: the step in which the dispatcher fans a decoded notification out
\* starts exactly one wrapper call, for the notification's height, for every
\* listener that is a value of the registry at that moment, and none for any
\* other listener.
ThmC31 ==
  [][(nextH' = nextH + 1 /\ loopPc' = loopPc)
     => /\ calls \subseteq calls'
        /\ \A l \in Listeners :
             /\ l \in Registered
                => /\ dispatched'[l] = dispatched[l] \cup {nextH}
                   /\ nextH \notin dispatched[l]
                   /\ {g \in calls' \ calls : g.l = l}
                        = {[l |-> l, h |-> nextH, pc |-> "cas"]}
             /\ l \notin Registered
                => /\ dispatched'[l] = dispatched[l]
                   /\ {g \in calls' \ calls : g.l = l} = {}]_vars

\* a batch was handed to one registered listener and not to the other, whose
\* registration had completed and which had been handed the batch before
WitC31 ==
  \E l, k \in Listeners :
    /\ regPc[l] = "active" /\ regPc[k] = "active"
    /\ 2 \in dispatched[l]
    /\ 1 \in dispatched[k] /\ 2 \notin dispatched[k]

\* C32: with no receiver on the error channel, a live GetHeader or decoding
\* failure leaves the dispatcher goroutine in its send, and from then on it
\* stays there: no notification is taken or fanned out, the subscription
\* stays open, isListening stays 1 and the engine's cancel closure does not
\* get past its send on done.
ThmC32 ==
  [][\A e \in Engines :
       /\ ( /\ loopPc[e] = "select" /\ e \in subOpen
            /\ faults' = faults + 1 /\ nextH' = nextH + 1 )
          => loopPc'[e] \in {"header", "decode"}
       /\ loopPc[e] \in {"header", "decode"}
          => /\ loopPc'[e] = loopPc[e]
             /\ nextH' = nextH
             /\ dispatched' = dispatched
             /\ oncePc[e] \in {"none", "fresh", "send"}
             /\ oncePc'[e] \in {"none", "fresh", "send"}
             /\ isListening = 1 /\ isListening' = 1
             /\ e \in subOpen'
             /\ subCount' = subCount]_vars

\* the dispatcher is blocked in its send with a block still to announce, a
\* listener registered, and a call of the cancel closure waiting in its send
WitC32 ==
  \E e \in Engines :
    /\ loopPc[e] \in {"header", "decode"}
    /\ oncePc[e] = "send"
    /\ nextH <= lastH
    /\ Registered # {}

\* C33: a call of a listener's cancel function after the first one changes
\* nothing of the registry nor of any listener, also when the id it once
\* freed now belongs to another listener; a registry entry is deleted only in
\* the first call of some listener's cancel function, and the entry deleted
\* is the one under that listener's id.
ThmC33 ==
  [][/\ \A i \in DOMAIN eventsListeners :
          (eventsListeners[i] # Nil /\ eventsListeners'[i] = Nil)
          => \E l \in Listeners :
               /\ cancelCalls[l] = 0 /\ cancelCalls'[l] = 1
               /\ regIdx[l] = i
     /\ \A l \in Listeners :
          (cancelCalls[l] >= 1 /\ cancelCalls'[l] > cancelCalls[l])
          => /\ UNCHANGED <<eventsListeners, cancelled, regPc, regIdx>>
             /\ \A k \in Listeners \ {l} :
                  (Active(k) /\ eventsListeners[regIdx[k]] = k)
                  => (Active(k)' /\ eventsListeners'[regIdx[k]] = k)]_vars

\* the cancel function of a cancelled listener was called again while its
\* former id belongs to a new listener, which is still registered
WitC33 ==
  \E l, k \in Listeners :
    /\ l # k
    /\ cancelled[l] /\ cancelCalls[l] >= 2
    /\ Active(k)
    /\ regIdx[k] = regIdx[l]
    /\ eventsListeners[regIdx[k]] = k

\* C34: once an engine's cancel closure has finished, the compare-and-swap
\* of the next StartEventsListening call wins; when that call returns after a
\* successful setup it returns the closure and the error channel of a new
\* engine, whose subscription is open and whose loop runs; no step of Start
\* or of a cancel closure changes the registry; the new engine's fan-out
\* reaches every registered listener; a call of the old closure changes
\* nothing.
OldDone == {e \in Engines : oncePc[e] = "done"}

ThmC34 ==
  [][/\ \A c \in Callers :
          /\ ( /\ startPc[c] = "cas" /\ startPc'[c] # "cas"
               /\ OldDone # {} /\ \A e \in Engines : oncePc[e] \in {"none", "done"}
               /\ isListening = 0 )
             => startPc'[c] = "setup" /\ isListening' = 1
          /\ ( /\ startPc[c] = "install" /\ startPc'[c] = "returned"
               /\ OldDone # {} )
             => /\ ret'[c].cancel \notin OldDone \cup {Nil}
                /\ ret'[c].errs = ret'[c].cancel
                /\ ~ret'[c].err
                /\ ret'[c].cancel \in subOpen'
                /\ loopPc'[ret'[c].cancel] # "none"
                /\ oncePc'[ret'[c].cancel] = "fresh"
                /\ cancelListening' = ret'[c].cancel
                /\ errsListening' = ret'[c].errs
     /\ eventsListeners' # eventsListeners => UNCHANGED lifeVars
     /\ \A e \in Engines \ OldDone :
          ( /\ OldDone # {} /\ loopPc[e] = "select"
            /\ nextH' = nextH + 1 /\ loopPc' = loopPc )
          => \A l \in Registered : nextH \in dispatched'[l]
     /\ \A e \in OldDone :
          stopCalls'[e] > stopCalls[e]
          => UNCHANGED <<isListening, cancelListening, errsListening,
                         subCount, subOpen, loopPc, oncePc, eventsListeners,
                         calls>>]_vars

\* the first engine was cancelled, its closure was called once more, the
\* second Start call has returned the handles of the second engine, and that
\* engine can hand the last block to a listener that was handed the first
WitC34 ==
  /\ oncePc[1] = "done"
  /\ stopCalls[1] >= 2
  /\ startPc[1] = "returned" /\ ret[1].opened /\ ret[1].cancel = 2
  /\ \E l \in Registered : 1 \in dispatched[l] /\ 2 \notin dispatched[l]
  /\ ENABLED LiveDispatch(2)

\* C35: when every goroutine that can take a step eventually takes one, the
\* backfill goroutine of a cancelled listener eventually returns.
OrigC35 == \A l \in Listeners : cancelled[l] ~> BfExited(l)

\* C36: while a listener's pending queue is open, at most one invocation of
\* its callback is running, and it runs in the backfill goroutine; a wrapper
\* call is on the direct path only when the queue is closed and empty and
\* pendingEvents.Do has returned.
CbCount(l) ==
  Cardinality({g \in calls : g.l = l /\ g.pc = "cbDirect"})
    + (IF bfPc[l] \in {"cbBackfill", "cbDrain"} THEN 1 ELSE 0)

ThmC36 ==
  \A l \in Listeners :
    /\ ~peDone[l]
       => /\ CbCount(l) <= 1
          /\ \A g \in calls : g.l = l => g.pc \notin {"direct", "cbDirect"}
    /\ (\E g \in calls : g.l = l /\ g.pc \in {"direct", "cbDirect"})
       => /\ peDone[l]
          /\ peList[l] = <<>>
          /\ bfPc[l] = "exitDone"

\* the callback runs inside pendingEvents.Do while the wrapper call of a
\* later batch waits for pe.mu
WitC36 ==
  \E l \in Listeners :
    /\ ~peDone[l]
    /\ bfPc[l] = "cbDrain"
    /\ ViaSeq(l, "backfill") # <<>>
    /\ \E g \in calls : g.l = l /\ g.pc = "push"

\* C37: done = true implies that the list is empty: done is set in a step of
\* pendingEvents.Do that finds the list empty, outside any callback, and once
\* done is set the list does not change.
ThmC37 ==
  [][\A l \in Listeners :
       /\ peDone[l] => peList[l] = <<>>
       /\ (~peDone[l] /\ peDone'[l])
          => /\ bfPc[l] = "drain" /\ bfPc'[l] = "exitDone"
             /\ peList[l] = <<>> /\ peList'[l] = <<>>
       /\ peDone[l] => peList'[l] = peList[l]]_vars

\* the queue is closed after a drain of at least one batch, and the callback
\* runs for a batch whose push was refused
WitC37 ==
  \E l \in Listeners :
    /\ peDone[l]
    /\ ViaSeq(l, "drain") # <<>>
    /\ \E g \in calls : g.l = l /\ g.pc = "cbDirect"

====
